---- MODULE Spec2Model ----
\* Model of the Pythonic Ecosystem Simulator (main.py, ecosystem.py, organisms.py).
\* The state is the Ecosystem object (grid size, main storage, the two pending
\* queues, the seeding helper set), the position of run() in its loops, and the
\* sequence of tick tags handed to display().  Every random draw of the program
\* (randint, shuffle, choice, random) is an existentially chosen input.
EXTENDS Integers, Sequences, FiniteSets, TLC

\* ------------------------------------------------------------------ bounds
\* The parameter sets explored: grids of at most MaxWidth by MaxHeight and at
\* most MaxCells cells, at most MaxSeeded organisms asked for at start-up, and
\* runs whose work
\* (cells * cells * ticks: every turn scans the storage once per neighbour
\* cell) is at most MaxWork, so that the smaller the grid the longer the run.
MaxWidth == 3
MaxHeight == 3
MaxCells == 4
MaxSeeded == 3
MaxWork == 45

\* ------------------------------------------------------- program constants
METABOLIC_ENERGY_COST == 1
HERBIVORE_INITIAL_ENERGY == 15
HERBIVORE_EAT_GAIN == 10
HERBIVORE_REPRODUCTION_ENERGY_THRESHOLD == 20
HERBIVORE_REPRODUCTION_COST == 8
HERBIVORE_CHILD_ENERGY == 10
CARNIVORE_INITIAL_ENERGY == 25
CARNIVORE_EAT_GAIN == 15
CARNIVORE_REPRODUCTION_ENERGY_THRESHOLD == 40
CARNIVORE_REPRODUCTION_COST == 20
CARNIVORE_CHILD_ENERGY == 20

\* DIRECTIONS, in the order of the source list.
DIRECTIONS ==
  << <<-1, 0>>, <<1, 0>>, <<0, -1>>, <<0, 1>>,
     <<-1, -1>>, <<-1, 1>>, <<1, -1>>, <<1, 1>> >>

Species == {"Plant", "Herbivore", "Carnivore"}

VARIABLES
  width, height,            \* Ecosystem.width / height
  initial_plants, initial_herbivores, initial_carnivores,
  total_ticks,              \* Ecosystem.total_ticks
  organisms,                \* Ecosystem.organisms: main storage (a list)
  initial_helper_set,       \* Ecosystem.initial_helper_set
  temp_added_organisms,     \* pending births (the newborn objects)
  temp_removed_organisms,   \* pending deaths (references to objects)
  tick,                     \* loop variable of run(), after "tick += 1"
  shuffled,                 \* the part of the shuffled copy not yet visited
  pc,                       \* "populate", "run", "update", "done"
  displayed,                \* tick tags passed to display(), in order
  updated                   \* history: the objects update() was called on
                            \* in the current tick

vars == << width, height, initial_plants, initial_herbivores, initial_carnivores,
           total_ticks, organisms, initial_helper_set, temp_added_organisms,
           temp_removed_organisms, tick, shuffled, pc, displayed, updated >>

params == << width, height, initial_plants, initial_herbivores,
             initial_carnivores, total_ticks >>

\* ----------------------------------------------------------------- helpers
Range(s) == { s[i] : i \in 1..Len(s) }

\* Organism.__init__ / Plant.__init__: a plant carries no energy attribute; the
\* field is kept at 0 and never read for plants.
Plant(x, y) ==
  [species |-> "Plant", x |-> x, y |-> y, energy |-> 0, alive |-> TRUE]

Herbivore(x, y) ==
  [species |-> "Herbivore", x |-> x, y |-> y,
   energy |-> HERBIVORE_INITIAL_ENERGY, alive |-> TRUE]

Carnivore(x, y) ==
  [species |-> "Carnivore", x |-> x, y |-> y,
   energy |-> CARNIVORE_INITIAL_ENERGY, alive |-> TRUE]

\* organism_class(x, y) / child_class(new_x, new_y)
New(class, x, y) ==
  IF class = "Plant" THEN Plant(x, y)
  ELSE IF class = "Herbivore" THEN Herbivore(x, y)
  ELSE Carnivore(x, y)

\* The world a turn reads and writes: storage and the two pending queues.
World ==
  [organisms |-> organisms,
   temp_added_organisms |-> temp_added_organisms,
   temp_removed_organisms |-> temp_removed_organisms]

\* self.organisms + self.temp_added_organisms
AllOrganisms(w) == w.organisms \o w.temp_added_organisms

\* A reference to an object is its place in storage followed by the pending
\* births: storage only changes at the commit and births are only appended,
\* so the place identifies the object for the whole tick.
Refs(w) == 1..(Len(w.organisms) + Len(w.temp_added_organisms))

Lookup(w, ref) ==
  IF ref <= Len(w.organisms) THEN w.organisms[ref]
  ELSE w.temp_added_organisms[ref - Len(w.organisms)]

\* In-place mutation of the object referred to.
Mutate(w, ref, field, value) ==
  LET n == Len(w.organisms)
  IN  IF ref <= n
      THEN [w EXCEPT !.organisms[ref][field] = value]
      ELSE [w EXCEPT !.temp_added_organisms[ref - n][field] = value]

\* ------------------------------------------------- main.py: the parameters
\* get_simulation_parameters: width, height > 0, counts >= 0, ticks > 0 and
\* the total not above the grid capacity (otherwise everything is re-entered).
ValidParameters(w, h, p, hb, c, t) ==
  /\ w > 0 /\ h > 0
  /\ p >= 0 /\ hb >= 0 /\ c >= 0
  /\ p + hb + c <= w * h
  /\ t > 0

\* ------------------------------------------------------------ construction
\* The class populate() is working on, from the number seeded so far.
PopulateClass(n) ==
  IF n < initial_plants THEN "Plant"
  ELSE IF n < initial_plants + initial_herbivores THEN "Herbivore"
  ELSE "Carnivore"

TotalRequested == initial_plants + initial_herbivores + initial_carnivores

\* A variant of random_empty_cell that never consults the helper set.
CellIsFree_unchecked(cell, helper) == TRUE

\* random_empty_cell: whether the drawn cell is handed back (and recorded).
CellIsFree(cell, helper) == cell \notin helper

Init ==
  /\ width \in 1..MaxWidth
  /\ height \in 1..MaxHeight
  /\ width * height <= MaxCells
  /\ initial_plants \in 0..MaxSeeded
  /\ initial_herbivores \in 0..MaxSeeded
  /\ initial_carnivores \in 0..MaxSeeded
  /\ initial_plants + initial_herbivores + initial_carnivores <= MaxSeeded
  /\ total_ticks \in 1..MaxWork
  /\ (width * height) * (width * height) * total_ticks <= MaxWork
  /\ ValidParameters(width, height, initial_plants, initial_herbivores,
                     initial_carnivores, total_ticks)
  /\ organisms = << >>
  /\ initial_helper_set = {}
  /\ temp_added_organisms = << >>
  /\ temp_removed_organisms = << >>
  /\ tick = 0
  /\ shuffled = {}
  /\ pc = "populate"
  /\ displayed = << >>
  /\ updated = {}

\* One pass of the loop of random_empty_cell inside populate(): draw a cell; a
\* cell already handed out is drawn again, a fresh one receives the organism.
Populate ==
  /\ pc = "populate"
  /\ Len(organisms) < TotalRequested
  /\ \E x \in 0..(width - 1), y \in 0..(height - 1) :
       IF CellIsFree(<<x, y>>, initial_helper_set)
       THEN /\ initial_helper_set' = initial_helper_set \cup {<<x, y>>}
            /\ organisms' =
                 Append(organisms, New(PopulateClass(Len(organisms)), x, y))
       ELSE UNCHANGED << organisms, initial_helper_set >>
  /\ UNCHANGED << params, temp_added_organisms, temp_removed_organisms, tick,
                  shuffled, pc, displayed, updated >>

\* The rest of __init__: the helper set is cleared, the queues are created and
\* the initial state is displayed with tag 0.
Construct ==
  /\ pc = "populate"
  /\ Len(organisms) = TotalRequested
  /\ initial_helper_set' = {}
  /\ temp_added_organisms' = << >>
  /\ temp_removed_organisms' = << >>
  /\ displayed' = Append(displayed, 0)
  /\ pc' = "run"
  /\ UNCHANGED << params, organisms, tick, shuffled, updated >>

\* -------------------------------------------------- ecosystem.py: queries
\* The references in the order of "self.organisms + self.temp_added_organisms".
RefSeq(w) == [i \in Refs(w) |-> i]

\* A variant of get_organism_at without the test of the alive flag.
get_organism_at_dead_or_alive(w, x, y) ==
  SelectSeq(RefSeq(w), LAMBDA ref : LET org == Lookup(w, ref)
                                    IN  org.x = x /\ org.y = y)

\* get_organism_at: the alive organisms, committed or pending, at (x, y).
get_organism_at(w, x, y) ==
  SelectSeq(RefSeq(w), LAMBDA ref : LET org == Lookup(w, ref)
                                    IN  org.x = x /\ org.y = y /\ org.alive)

\* get_adjacent_cells: the in-bounds neighbours of (x, y), in DIRECTIONS order.
get_adjacent_cells(x, y) ==
  LET cand == [i \in 1..Len(DIRECTIONS) |->
                 << x + DIRECTIONS[i][1], y + DIRECTIONS[i][2] >>]
  IN  SelectSeq(cand, LAMBDA c : 0 <= c[1] /\ c[1] < width
                                 /\ 0 <= c[2] /\ c[2] < height)

\* A variant of get_adjacent_empty_cells that looks at main storage only and
\* so misses the organisms born in the current tick.
get_adjacent_empty_cells_storage_only(w, x, y) ==
  SelectSeq(get_adjacent_cells(x, y),
            LAMBDA c : ~ \E i \in 1..Len(w.organisms) :
                           /\ w.organisms[i].x = c[1]
                           /\ w.organisms[i].y = c[2]
                           /\ w.organisms[i].alive)

\* get_adjacent_empty_cells: the neighbours where get_organism_at is empty.
get_adjacent_empty_cells(w, x, y) ==
  SelectSeq(get_adjacent_cells(x, y),
            LAMBDA c : get_organism_at(w, c[1], c[2]) = << >>)

RECURSIVE Concat(_)
Concat(ss) == IF ss = << >> THEN << >> ELSE Head(ss) \o Concat(Tail(ss))

\* A variant of get_adjacent_organisms without the isinstance test: every
\* alive neighbour counts, whatever its type.
get_adjacent_organisms_any_type(w, x, y, target_organism_type) ==
  LET adjacent == get_adjacent_cells(x, y)
  IN  Concat([i \in 1..Len(adjacent) |->
                SelectSeq(RefSeq(w),
                          LAMBDA ref : LET org == Lookup(w, ref)
                                       IN  /\ org.x = adjacent[i][1]
                                           /\ org.y = adjacent[i][2]
                                           /\ org.alive)])

\* get_adjacent_organisms: for each neighbour cell in turn, the alive organisms
\* of the target type there, in storage order and then pending-birth order.
get_adjacent_organisms(w, x, y, target_organism_type) ==
  LET adjacent == get_adjacent_cells(x, y)
  IN  Concat([i \in 1..Len(adjacent) |->
                SelectSeq(RefSeq(w),
                          LAMBDA ref : LET org == Lookup(w, ref)
                                       IN  /\ org.x = adjacent[i][1]
                                           /\ org.y = adjacent[i][2]
                                           /\ org.species = target_organism_type
                                           /\ org.alive)])

\* ------------------------------------------------ ecosystem.py: mutations
add_organism(w, organism) ==
  [w EXCEPT !.temp_added_organisms = Append(@, organism)]

\* A variant of remove_organism that also takes away the energy of the
\* organism it removes.
remove_organism_drained(w, ref) ==
  [Mutate(Mutate(w, ref, "alive", FALSE), ref, "energy", 0)
     EXCEPT !.temp_removed_organisms = Append(@, ref)]

\* A variant of remove_organism that only queues the organism and leaves the
\* alive flag for the end of the tick.
remove_organism_deferred(w, ref) ==
  [w EXCEPT !.temp_removed_organisms = Append(@, ref)]

remove_organism(w, ref) ==
  [Mutate(w, ref, "alive", FALSE) EXCEPT !.temp_removed_organisms = Append(@, ref)]

move_organism(w, ref, new_x, new_y) ==
  Mutate(Mutate(w, ref, "x", new_x), ref, "y", new_y)

\* random.choice(seq), the draw being the place chosen
choice(seq, draw) == seq[draw]

\* --------------------------------------------------- organisms.py: Plant
\* A variant of Plant.update that spreads to any neighbouring cell, empty or
\* not.
Plant_update_any_neighbour(w, self, roll, draw) ==
  LET me == Lookup(w, self)
      cells == get_adjacent_cells(me.x, me.y)
  IN  IF roll /\ cells # << >>
      THEN LET cell == choice(cells, draw)
           IN  [world |-> add_organism(w, Plant(cell[1], cell[2])),
                ate |-> FALSE, prey |-> 0, reproduced |-> TRUE]
      ELSE [world |-> w, ate |-> FALSE, prey |-> 0, reproduced |-> FALSE]

\* Plant.update.  roll is the outcome of "random.random() < chance".  The
\* result carries the world afterwards and what the turn did.
Plant_update(w, self, roll, draw) ==
  LET me == Lookup(w, self)
      empty_cells == get_adjacent_empty_cells(w, me.x, me.y)
  IN  IF roll /\ empty_cells # << >>
      THEN LET cell == choice(empty_cells, draw)
           IN  [world |-> add_organism(w, Plant(cell[1], cell[2])),
                ate |-> FALSE, prey |-> 0, reproduced |-> TRUE]
      ELSE [world |-> w, ate |-> FALSE, prey |-> 0, reproduced |-> FALSE]

\* -------------------------------------------------- organisms.py: Animal
\* Animal.update: the metabolic cost.
Animal_update(w, self) ==
  Mutate(w, self, "energy", Lookup(w, self).energy - METABOLIC_ENERGY_COST)

\* A variant of Animal.move that steps onto any neighbouring cell, empty or
\* not.
move_anywhere(w, self, draw) ==
  LET me == Lookup(w, self)
      cells == get_adjacent_cells(me.x, me.y)
  IN  IF cells # << >>
      THEN LET cell == choice(cells, draw)
           IN  move_organism(w, self, cell[1], cell[2])
      ELSE w

\* Animal.move
move(w, self, draw) ==
  LET me == Lookup(w, self)
      empty_cells == get_adjacent_empty_cells(w, me.x, me.y)
  IN  IF empty_cells # << >>
      THEN LET cell == choice(empty_cells, draw)
           IN  move_organism(w, self, cell[1], cell[2])
      ELSE w

\* A variant of Animal.eat that takes the prey without moving onto its cell.
eat_in_place(w, self, prey_class, eat_gain, draw) ==
  LET me == Lookup(w, self)
      prey_list == get_adjacent_organisms(w, me.x, me.y, prey_class)
  IN  IF prey_list # << >>
      THEN LET prey == choice(prey_list, draw)
               w2 == remove_organism(w, prey)
               w3 == Mutate(w2, self, "energy", Lookup(w2, self).energy + eat_gain)
           IN  [world |-> w3, ret |-> TRUE, prey |-> prey]
      ELSE [world |-> w, ret |-> FALSE, prey |-> 0]

\* Animal.eat: the world afterwards, the value returned and the prey chosen.
eat(w, self, prey_class, eat_gain, draw) ==
  LET me == Lookup(w, self)
      prey_list == get_adjacent_organisms(w, me.x, me.y, prey_class)
  IN  IF prey_list # << >>
      THEN LET prey == choice(prey_list, draw)
               w1 == move_organism(w, self, Lookup(w, prey).x, Lookup(w, prey).y)
               w2 == remove_organism(w1, prey)
               w3 == Mutate(w2, self, "energy", Lookup(w2, self).energy + eat_gain)
           IN  [world |-> w3, ret |-> TRUE, prey |-> prey]
      ELSE [world |-> w, ret |-> FALSE, prey |-> 0]

\* A variant of Animal.reproduce that puts a child on every adjacent empty
\* cell instead of on one chosen cell.
reproduce_everywhere(w, self, reproduction_energy_threshold, roll, reproduction_cost, child_class, child_energy, draw) ==
  LET me == Lookup(w, self)
      empty_cells == get_adjacent_empty_cells(w, me.x, me.y)
  IN  IF me.energy >= reproduction_energy_threshold /\ roll /\ empty_cells # << >>
      THEN LET children == [i \in 1..Len(empty_cells) |->
                              [New(child_class, empty_cells[i][1], empty_cells[i][2])
                                 EXCEPT !.energy = child_energy]]
               w1 == [w EXCEPT !.temp_added_organisms = @ \o children]
           IN  [world |-> Mutate(w1, self, "energy", me.energy - reproduction_cost),
                ret |-> TRUE]
      ELSE [world |-> w, ret |-> FALSE]

\* A variant of Animal.reproduce that leaves the child with the energy its
\* constructor gave it.
reproduce_constructor_energy(w, self, reproduction_energy_threshold, roll, reproduction_cost, child_class, child_energy, draw) ==
  LET me == Lookup(w, self)
      empty_cells == get_adjacent_empty_cells(w, me.x, me.y)
  IN  IF me.energy >= reproduction_energy_threshold /\ roll /\ empty_cells # << >>
      THEN LET cell == choice(empty_cells, draw)
               w1 == add_organism(w, New(child_class, cell[1], cell[2]))
           IN  [world |-> Mutate(w1, self, "energy", me.energy - reproduction_cost),
                ret |-> TRUE]
      ELSE [world |-> w, ret |-> FALSE]

\* Animal.reproduce: the world afterwards and the value returned.
reproduce(w, self, reproduction_energy_threshold, roll, reproduction_cost, child_class, child_energy, draw) ==
  LET me == Lookup(w, self)
      empty_cells == get_adjacent_empty_cells(w, me.x, me.y)
  IN  IF me.energy >= reproduction_energy_threshold /\ roll /\ empty_cells # << >>
      THEN LET cell == choice(empty_cells, draw)
               new_child == [New(child_class, cell[1], cell[2])
                               EXCEPT !.energy = child_energy]
               w1 == add_organism(w, new_child)
           IN  [world |-> Mutate(w1, self, "energy", me.energy - reproduction_cost),
                ret |-> TRUE]
      ELSE [world |-> w, ret |-> FALSE]

\* A variant of Animal.survive that lets an animal live on with energy 0.
survive_below_zero(w, self) ==
  IF Lookup(w, self).energy < 0 THEN remove_organism(w, self) ELSE w

\* Animal.survive
survive(w, self) ==
  IF Lookup(w, self).energy <= 0 THEN remove_organism(w, self) ELSE w

\* A variant of the shared body that checks survival right after metabolism,
\* before the animal has had the chance to eat.
animal_turn_survive_first(w, self, prey_class, eat_gain, threshold, cost, child_class, child_energy, roll, draw) ==
  LET w1 == survive(Animal_update(w, self), self)
      e  == eat(w1, self, prey_class, eat_gain, draw)
      r  == IF e.ret THEN [world |-> e.world, ret |-> FALSE]
            ELSE reproduce(e.world, self, threshold, roll, cost, child_class,
                           child_energy, draw)
      w3 == IF e.ret \/ r.ret THEN r.world ELSE move(r.world, self, draw)
  IN  [world |-> w3, ate |-> e.ret, prey |-> e.prey, reproduced |-> r.ret]

\* A variant of the shared body in which the plain move is not an alternative
\* to eating and reproducing but follows them in every turn.
animal_turn_always_moves(w, self, prey_class, eat_gain, threshold, cost, child_class, child_energy, roll, draw) ==
  LET w1 == Animal_update(w, self)
      e  == eat(w1, self, prey_class, eat_gain, draw)
      r  == IF e.ret THEN [world |-> e.world, ret |-> FALSE]
            ELSE reproduce(e.world, self, threshold, roll, cost, child_class,
                           child_energy, draw)
      w3 == move(r.world, self, IF e.ret \/ r.ret THEN 1 ELSE draw)
  IN  [world |-> survive(w3, self), ate |-> e.ret, prey |-> e.prey,
       reproduced |-> r.ret]

\* The body shared by Herbivore.update and Carnivore.update: metabolism, then
\* eat, else reproduce, else move, then the survival check.
animal_turn(w, self, prey_class, eat_gain, threshold, cost, child_class, child_energy, roll, draw) ==
  LET w1 == Animal_update(w, self)
      e  == eat(w1, self, prey_class, eat_gain, draw)
      r  == IF e.ret THEN [world |-> e.world, ret |-> FALSE]
            ELSE reproduce(e.world, self, threshold, roll, cost, child_class,
                           child_energy, draw)
      w3 == IF e.ret \/ r.ret THEN r.world ELSE move(r.world, self, draw)
  IN  [world |-> survive(w3, self), ate |-> e.ret, prey |-> e.prey,
       reproduced |-> r.ret]

Herbivore_update(w, self, roll, draw) ==
  animal_turn(w, self, "Plant", HERBIVORE_EAT_GAIN,
              HERBIVORE_REPRODUCTION_ENERGY_THRESHOLD, HERBIVORE_REPRODUCTION_COST,
              "Herbivore", HERBIVORE_CHILD_ENERGY, roll, draw)

Carnivore_update(w, self, roll, draw) ==
  animal_turn(w, self, "Herbivore", CARNIVORE_EAT_GAIN,
              CARNIVORE_REPRODUCTION_ENERGY_THRESHOLD, CARNIVORE_REPRODUCTION_COST,
              "Carnivore", CARNIVORE_CHILD_ENERGY, roll, draw)

\* org.update(self), dispatched on the class of the object.
update(w, self, roll, draw) ==
  LET species == Lookup(w, self).species
  IN  IF species = "Plant" THEN Plant_update(w, self, roll, draw)
      ELSE IF species = "Herbivore" THEN Herbivore_update(w, self, roll, draw)
      ELSE Carnivore_update(w, self, roll, draw)

\* The length of the one list random.choice is applied to in this turn, if it
\* is applied at all: the prey list of an animal with adjacent prey, else the
\* list of adjacent empty cells.
ChoiceLen(w, self) ==
  LET me == Lookup(w, self)
      prey_class == IF me.species = "Herbivore" THEN "Plant" ELSE "Herbivore"
      prey_list == IF me.species = "Plant" THEN << >>
                   ELSE get_adjacent_organisms(w, me.x, me.y, prey_class)
  IN  IF prey_list # << >> THEN Len(prey_list)
      ELSE Len(get_adjacent_empty_cells(w, me.x, me.y))

Draws(n) == 1..(IF n = 0 THEN 1 ELSE n)

\* The outcomes of "random.random() < chance" in this turn.  A plant always
\* rolls; an animal rolls only when it found no prey and its energy after
\* metabolism reaches the threshold ("and" does not evaluate its right side
\* otherwise), and then the outcome recorded is FALSE.
Rolls(w, self) ==
  LET me == Lookup(w, self)
      prey_list == get_adjacent_organisms(w, me.x, me.y,
                     IF me.species = "Herbivore" THEN "Plant" ELSE "Herbivore")
      threshold == IF me.species = "Herbivore"
                   THEN HERBIVORE_REPRODUCTION_ENERGY_THRESHOLD
                   ELSE CARNIVORE_REPRODUCTION_ENERGY_THRESHOLD
  IN  IF me.species = "Plant" THEN BOOLEAN
      ELSE IF prey_list = << >> /\ me.energy - METABOLIC_ENERGY_COST >= threshold
           THEN BOOLEAN
           ELSE {FALSE}

\* ---------------------------------------------------- ecosystem.py: run()
\* A variant of the loop of run() that gives up once no animal is left.
run_until_extinction(t) ==
  /\ t < total_ticks
  /\ \E i \in 1..Len(organisms) : organisms[i].species # "Plant"

\* for tick in range(self.total_ticks)
run_has_next(t) == t < total_ticks

\* The objects of storage and of the pending births, each paired with its
\* reference, so that the commit can tell objects apart by identity.
Tagged(objs, first) == [i \in 1..Len(objs) |-> [ref |-> first + i - 1, obj |-> objs[i]]]

\* "for org in self.temp_added_organisms: if org.alive: self.organisms.append(org)"
RECURSIVE append_births(_, _)
append_births(orgs, added) ==
  IF added = << >> THEN orgs
  ELSE append_births(IF Head(added).obj.alive THEN Append(orgs, Head(added)) ELSE orgs,
                     Tail(added))

\* list.remove(org): the first element that is the object is dropped.
list_remove(orgs, ref) ==
  LET i == CHOOSE k \in 1..Len(orgs) :
             orgs[k].ref = ref /\ \A m \in 1..(k - 1) : orgs[m].ref # ref
  IN  SubSeq(orgs, 1, i - 1) \o SubSeq(orgs, i + 1, Len(orgs))

\* A variant of the commit that forgets the pending deaths.
purge_deaths_forgotten(orgs, removed) == orgs

\* "for org in self.temp_removed_organisms: if org in self.organisms: remove"
RECURSIVE purge_deaths(_, _)
purge_deaths(orgs, removed) ==
  IF removed = << >> THEN orgs
  ELSE purge_deaths(IF \E k \in 1..Len(orgs) : orgs[k].ref = Head(removed)
                    THEN list_remove(orgs, Head(removed)) ELSE orgs,
                    Tail(removed))

\* The storage after the two loops that end a tick.
commit(w) ==
  LET n == Len(w.organisms)
      kept == purge_deaths(append_births(Tagged(w.organisms, 1),
                                         Tagged(w.temp_added_organisms, n + 1)),
                           w.temp_removed_organisms)
  IN  [i \in 1..Len(kept) |-> kept[i].obj]

\* display(tick): the tag is recorded.
display(t) == Append(displayed, t)

\* A variant of the update loop without the "if org.alive" test.
turn_always_taken(w, org) == TRUE

\* "if org.alive": whether update() is called when the turn of org comes.
turn_is_taken(w, org) == Lookup(w, org).alive

\* Start of a tick: tick += 1; the storage is copied and shuffled.  The order
\* random.shuffle draws is revealed one turn at a time: shuffled holds the
\* references of the copy that the loop has still to visit.
Shuffle ==
  /\ pc = "run"
  /\ run_has_next(tick)
  /\ tick' = tick + 1
  /\ shuffled' = 1..Len(organisms)
  /\ pc' = "update"
  /\ updated' = {}
  /\ UNCHANGED << params, organisms, initial_helper_set, temp_added_organisms,
                  temp_removed_organisms, displayed >>

\* "if org.alive: org.update(self)" for the organism whose turn has come.
Update ==
  /\ pc = "update"
  /\ \E self \in shuffled :
       /\ turn_is_taken(World, self)
       /\ \E roll \in Rolls(World, self), draw \in Draws(ChoiceLen(World, self)) :
            LET res == update(World, self, roll, draw)
            IN  /\ organisms' = res.world.organisms
                /\ temp_added_organisms' = res.world.temp_added_organisms
                /\ temp_removed_organisms' = res.world.temp_removed_organisms
       /\ shuffled' = shuffled \ {self}
       /\ updated' = updated \cup {self}
  /\ UNCHANGED << params, initial_helper_set, tick, pc, displayed >>

\* The turn of an organism that is no longer alive is passed over.
Skip ==
  /\ pc = "update"
  /\ \E self \in shuffled :
       /\ ~ turn_is_taken(World, self)
       /\ shuffled' = shuffled \ {self}
  /\ UNCHANGED << params, organisms, initial_helper_set, temp_added_organisms,
                  temp_removed_organisms, tick, pc, displayed, updated >>

\* After all turns: births, deaths, the queues are cleared, display(tick).
Commit ==
  /\ pc = "update"
  /\ shuffled = {}
  /\ organisms' = commit(World)
  /\ temp_added_organisms' = << >>
  /\ temp_removed_organisms' = << >>
  /\ displayed' = display(tick)
  /\ pc' = "run"
  /\ updated' = {}
  /\ UNCHANGED << params, initial_helper_set, tick, shuffled >>

\* The loop of run() is exhausted; main prints "Simulation ended.".
Finish ==
  /\ pc = "run"
  /\ ~ run_has_next(tick)
  /\ pc' = "done"
  /\ UNCHANGED << params, organisms, initial_helper_set, temp_added_organisms,
                  temp_removed_organisms, tick, shuffled, displayed, updated >>

Next ==
  \/ Populate
  \/ Construct
  \/ Shuffle
  \/ Update
  \/ Skip
  \/ Commit
  \/ Finish

Spec == Init /\ [][Next]_vars

\* ------------------------------------ Ecosystem(...) called without main.py
\* Ecosystem.__init__ takes its six arguments as they come: nothing in it
\* compares them with 0 or with the capacity of the grid.  The constructions
\* explored here are those a caller other than main() can make: sides and
\* tick counts from 0 upwards, and any population up to MaxSeeded.
UncheckedMaxSide == 2
UncheckedMaxTicks == 2

InitUnchecked ==
  /\ width \in 0..UncheckedMaxSide
  /\ height \in 0..UncheckedMaxSide
  /\ initial_plants \in 0..MaxSeeded
  /\ initial_herbivores \in 0..MaxSeeded
  /\ initial_carnivores \in 0..MaxSeeded
  /\ initial_plants + initial_herbivores + initial_carnivores <= MaxSeeded
  /\ total_ticks \in 0..UncheckedMaxTicks
  /\ organisms = << >>
  /\ initial_helper_set = {}
  /\ temp_added_organisms = << >>
  /\ temp_removed_organisms = << >>
  /\ tick = 0
  /\ shuffled = {}
  /\ pc = "populate"
  /\ displayed = << >>
  /\ updated = {}

\* random.randint(0, self.width-1) with width < 1 (or the same for height):
\* randrange finds the range empty and raises ValueError, which leaves
\* random_empty_cell, populate and __init__.
EmptyRange ==
  /\ pc = "populate"
  /\ Len(organisms) < TotalRequested
  /\ (width < 1 \/ height < 1)
  /\ pc' = "ValueError"
  /\ UNCHANGED << params, organisms, initial_helper_set, temp_added_organisms,
                  temp_removed_organisms, tick, shuffled, displayed, updated >>

NextUnchecked ==
  \/ Populate
  \/ EmptyRange
  \/ Construct
  \/ Shuffle
  \/ Update
  \/ Skip
  \/ Commit
  \/ Finish

SpecUnchecked == InitUnchecked /\ [][NextUnchecked]_vars

\* The random draws are fair: a step that changes the state and stays possible
\* is eventually taken (a cell that is free is eventually drawn).
FairSpecUnchecked == SpecUnchecked /\ WF_vars(NextUnchecked)

\* -------------------------------------------- a long run on a narrow strip
\* One plant and one herbivore seeded on a strip of StarveWidth by 1 cells and
\* run for StarveTicks ticks: long enough for the herbivore to use up its
\* initial energy away from the plant and to come next to it again.
StarveWidth == 4
StarveTicks == 15

InitStarve ==
  /\ width = StarveWidth
  /\ height = 1
  /\ initial_plants = 1
  /\ initial_herbivores = 1
  /\ initial_carnivores = 0
  /\ total_ticks = StarveTicks
  /\ ValidParameters(width, height, initial_plants, initial_herbivores,
                     initial_carnivores, total_ticks)
  /\ organisms = << >>
  /\ initial_helper_set = {}
  /\ temp_added_organisms = << >>
  /\ temp_removed_organisms = << >>
  /\ tick = 0
  /\ shuffled = {}
  /\ pc = "populate"
  /\ displayed = << >>
  /\ updated = {}

SpecStarve == InitStarve /\ [][Next]_vars

\* ================================================================ properties
Cells == (0..(width - 1)) \X (0..(height - 1))

IsAnimal(org) == org.species \in {"Herbivore", "Carnivore"}

\* A tick boundary: construction is over and no tick is in progress.
AtTickBoundary == pc \in {"run", "done"}

\* The references of the alive organisms, committed or pending, on a cell.
AliveAt(w, cell) ==
  { ref \in Refs(w) : LET org == Lookup(w, ref)
                      IN  org.alive /\ org.x = cell[1] /\ org.y = cell[2] }

CountOf(class) ==
  Cardinality({ i \in 1..Len(organisms) : organisms[i].species = class })

\* C1: at every tick boundary (tick 0 after seeding included) get_organism_at
\* returns at most one organism for every cell of the grid: no cell holds two
\* alive organisms.
C1_OccupancyAtBoundary ==
  AtTickBoundary =>
    \A cell \in Cells :
      /\ Len(get_organism_at(World, cell[1], cell[2])) <= 1
      /\ Cardinality({ i \in 1..Len(organisms) :
                         /\ organisms[i].alive
                         /\ << organisms[i].x, organisms[i].y >> = cell }) <= 1

\* A boundary after a tick in which a birth was committed next to an animal.
C1_Witness ==
  /\ pc = "run"
  /\ tick >= 2
  /\ Len(organisms) > TotalRequested
  /\ \E i \in 1..Len(organisms) : IsAnimal(organisms[i])

\* C2: after __init__ of a valid construction the storage holds exactly the
\* requested number of each species, not more than width * height organisms
\* in all, and no two of them on one cell.
C2_SeedingCapacity ==
  (pc = "run" /\ tick = 0) =>
    /\ CountOf("Plant") = initial_plants
    /\ CountOf("Herbivore") = initial_herbivores
    /\ CountOf("Carnivore") = initial_carnivores
    /\ Len(organisms) <= width * height
    /\ \A i, j \in 1..Len(organisms) :
         (organisms[i].x = organisms[j].x /\ organisms[i].y = organisms[j].y)
           => i = j
    /\ \A i \in 1..Len(organisms) :
         << organisms[i].x, organisms[i].y >> \in Cells /\ organisms[i].alive

\* A freshly built world with one organism of each species.
C2_Witness ==
  /\ pc = "run" /\ tick = 0
  /\ initial_plants = 1 /\ initial_herbivores = 1 /\ initial_carnivores = 1
  /\ Len(organisms) = 3

\* C3: an animal whose energy is <= 0 at the end of its turn is marked dead and
\* queued for removal at once, and no animal in main storage at a tick
\* boundary has energy below 1 (or is dead): the commit has purged it.
C3_StarvedArePurged ==
  /\ \A ref \in Refs(World) :
       (IsAnimal(Lookup(World, ref)) /\ Lookup(World, ref).energy <= 0)
         => /\ ~ Lookup(World, ref).alive
            /\ \E k \in 1..Len(temp_removed_organisms) :
                 temp_removed_organisms[k] = ref
  /\ AtTickBoundary =>
       \A i \in 1..Len(organisms) :
         IsAnimal(organisms[i]) => organisms[i].energy >= 1 /\ organisms[i].alive

\* A boundary where the only herbivore seeded is gone although no carnivore was
\* ever there to eat it: it starved and the commit removed it.
C3_Witness ==
  /\ pc = "run"
  /\ initial_herbivores = 1 /\ initial_carnivores = 0
  /\ CountOf("Herbivore") = 0
  /\ displayed # << >>

\* The world after the step.
WorldNext ==
  [organisms |-> organisms',
   temp_added_organisms |-> temp_added_organisms',
   temp_removed_organisms |-> temp_removed_organisms']

\* The step is the turn of org: update() is called on it.
TurnOf(org) ==
  /\ pc = "update"
  /\ org \in shuffled
  /\ org \notin updated
  /\ updated' = updated \cup {org}

\* The prey an animal finds around itself when its turn starts.
PreyAround(org) ==
  get_adjacent_organisms(World, Lookup(World, org).x, Lookup(World, org).y,
    IF Lookup(World, org).species = "Herbivore" THEN "Plant" ELSE "Herbivore")

InQueue(queue, ref) == \E k \in 1..Len(queue) : queue[k] = ref

\* C4: when an animal eats in its turn (it has adjacent prey, so eat returns
\* True), then right after the turn one of that prey is dead and returned by no
\* occupancy or adjacency query, the predator stands where the prey stood, and
\* its energy is its energy at the start of the turn - 1 + the eat gain
\* (10 for a Herbivore, 15 for a Carnivore).
C4_EatContract ==
  [][ \A org \in shuffled :
        (TurnOf(org) /\ IsAnimal(Lookup(World, org)) /\ PreyAround(org) # << >>)
          => \E prey \in Range(PreyAround(org)) :
               /\ Lookup(World, prey).alive
               /\ ~ Lookup(WorldNext, prey).alive
               /\ \A cell \in Cells :
                    /\ prey \notin Range(get_organism_at(WorldNext, cell[1], cell[2]))
                    /\ \A class \in Species :
                         prey \notin Range(get_adjacent_organisms(
                                             WorldNext, cell[1], cell[2], class))
               /\ Lookup(WorldNext, org).x = Lookup(World, prey).x
               /\ Lookup(WorldNext, org).y = Lookup(World, prey).y
               /\ Lookup(WorldNext, org).energy =
                    Lookup(World, org).energy - 1
                    + (IF Lookup(World, org).species = "Herbivore" THEN 10 ELSE 15)
    ]_vars

\* Inside a tick: a Carnivore that has just eaten its first Herbivore stands on
\* the cell of the dead Herbivore with energy 25 - 1 + 15.
C4_Witness ==
  /\ pc = "update"
  /\ \E org \in updated, prey \in Refs(World) :
       /\ Lookup(World, org).species = "Carnivore"
       /\ Lookup(World, org).alive
       /\ Lookup(World, org).energy = 39
       /\ Lookup(World, prey).species = "Herbivore"
       /\ ~ Lookup(World, prey).alive
       /\ Lookup(World, prey).x = Lookup(World, org).x
       /\ Lookup(World, prey).y = Lookup(World, org).y
       /\ InQueue(temp_removed_organisms, prey)

\* C5: when an animal reproduces in its turn (a child is enqueued), its energy
\* after metabolism was at least the threshold (20 / 40), the turn takes
\* exactly 1 + the reproduction cost (8 / 20) from its energy, and the child is
\* of the same species, alive, with the fixed child energy (10 / 20).
C5_ReproductionContract ==
  [][ \A org \in shuffled :
        ( /\ TurnOf(org)
          /\ IsAnimal(Lookup(World, org))
          /\ Len(temp_added_organisms') # Len(temp_added_organisms) )
          => LET herbivore == Lookup(World, org).species = "Herbivore"
                 before == Lookup(World, org).energy
                 child == temp_added_organisms'[Len(temp_added_organisms')]
             IN  /\ Len(temp_added_organisms') = Len(temp_added_organisms) + 1
                 /\ before - 1 >= (IF herbivore THEN 20 ELSE 40)
                 /\ Lookup(WorldNext, org).energy =
                      before - 1 - (IF herbivore THEN 8 ELSE 20)
                 /\ child.species = Lookup(World, org).species
                 /\ child.energy = (IF herbivore THEN 10 ELSE 20)
                 /\ child.alive
    ]_vars

\* Inside a tick: a Carnivore child waits among the pending births.
C5_Witness ==
  /\ pc = "update"
  /\ \E k \in 1..Len(temp_added_organisms) :
       /\ temp_added_organisms[k].species = "Carnivore"
       /\ temp_added_organisms[k].energy = 20
  /\ \E org \in updated :
       /\ Lookup(World, org).species = "Carnivore"
       /\ Lookup(World, org).energy >= 19

\* The tags 0, 1, ..., n in order.
TagsUpTo(n) == [i \in 1..(n + 1) |-> i - 1]

\* C6: display() is called with tag 0 at construction and then once after the
\* commit of every tick, with tags 1, 2, ... in order, and run() ends only
\* after total_ticks ticks: at the end exactly total_ticks + 1 snapshots, tagged
\* 0..total_ticks, have been emitted, whether or not any animal is left.
C6_RunContract ==
  /\ pc = "populate" => displayed = << >>
  /\ pc = "run" => displayed = TagsUpTo(tick)
  /\ pc = "update" => tick >= 1 /\ displayed = TagsUpTo(tick - 1)
  /\ pc = "done" => tick = total_ticks /\ displayed = TagsUpTo(total_ticks)

\* A finished run of more than 15 ticks whose animals have all died.
C6_Witness ==
  /\ pc = "done"
  /\ total_ticks > 15
  /\ initial_herbivores + initial_carnivores > 0
  /\ \A i \in 1..Len(organisms) : organisms[i].species = "Plant"

WorldUnchanged ==
  UNCHANGED << organisms, temp_added_organisms, temp_removed_organisms >>

\* C7: inside a tick update() is called only on an organism that is alive when
\* its turn comes, that was in main storage when the tick started (not on one
\* born in the tick) and that has not had its turn in this tick; the turn of
\* an organism that is no longer alive changes nothing.
C7_TurnsOnlyForTheLiving ==
  [][ /\ (pc = "update" /\ updated' # updated /\ pc' = "update")
         => \E org \in shuffled :
              /\ updated' = updated \cup {org}
              /\ org \notin updated
              /\ org \in 1..Len(organisms)
              /\ Lookup(World, org).alive
              /\ shuffled' = shuffled \ {org}
      /\ \A org \in shuffled :
           (pc = "update" /\ shuffled' = shuffled \ {org}
              /\ ~ Lookup(World, org).alive)
             => org \notin updated' /\ WorldUnchanged
      /\ (pc = "update" /\ pc' = "update" /\ updated' = updated)
           => WorldUnchanged
    ]_vars

\* Inside a tick: an organism of main storage was eaten before its turn and
\* has been passed over, and an organism born in this tick waits in the queue.
C7_Witness ==
  /\ pc = "update"
  /\ \E org \in 1..Len(organisms) :
       /\ org \notin shuffled
       /\ org \notin updated
       /\ ~ organisms[org].alive
  /\ \E k \in 1..Len(temp_added_organisms) : temp_added_organisms[k].alive

\* What the commit has to leave in main storage: the objects of storage and
\* then the pending births that are alive, none of them a pending death.
StorageAfterCommit(w) ==
  LET keep == SelectSeq(RefSeq(w),
                LAMBDA ref : /\ (ref <= Len(w.organisms) \/ Lookup(w, ref).alive)
                             /\ ~ InQueue(w.temp_removed_organisms, ref))
  IN  [i \in 1..Len(keep) |-> Lookup(w, keep[i])]

\* C8: the commit of a tick leaves in main storage the storage of the start of
\* the tick plus the pending births still alive minus the pending deaths (a
\* birth eaten in the same tick never enters), empties both queues, and every
\* organism left in main storage is alive.
C8_CommitContract ==
  [][ (pc = "update" /\ pc' = "run")
        => /\ organisms' = StorageAfterCommit(World)
           /\ temp_added_organisms' = << >>
           /\ temp_removed_organisms' = << >>
           /\ \A i \in 1..Len(organisms') : organisms'[i].alive
           /\ Len(organisms') <=
                Len(organisms)
                + Cardinality({ k \in 1..Len(temp_added_organisms) :
                                  temp_added_organisms[k].alive })
    ]_vars

\* All turns of a tick are over and the commit finds a birth that was eaten
\* (it is a pending death too) and a birth that is alive.
C8_Witness ==
  /\ pc = "update"
  /\ shuffled = {}
  /\ \E k \in 1..Len(temp_added_organisms) :
       /\ ~ temp_added_organisms[k].alive
       /\ InQueue(temp_removed_organisms, Len(organisms) + k)
  /\ \E k \in 1..Len(temp_added_organisms) : temp_added_organisms[k].alive

\* Moore neighbourhood.
Adjacent(c, d) ==
  /\ c # d
  /\ c[1] - d[1] \in {-1, 0, 1}
  /\ c[2] - d[2] \in {-1, 0, 1}

\* C9: at every point, for every cell, the three queries see exactly the alive
\* organisms, those of main storage and those pending birth alike: none that
\* is dead is returned or counted, and a cell is reported empty only if no
\* alive organism, committed or born this tick, is on it.
C9_QueriesSeeAliveAndPending ==
  pc # "populate" =>
    \A cell \in Cells :
      /\ Range(get_organism_at(World, cell[1], cell[2])) = AliveAt(World, cell)
      /\ Range(get_adjacent_empty_cells(World, cell[1], cell[2])) =
           { d \in Cells : Adjacent(cell, d) /\ AliveAt(World, d) = {} }
      /\ \A class \in Species :
           Range(get_adjacent_organisms(World, cell[1], cell[2], class)) =
             { ref \in Refs(World) :
                 LET org == Lookup(World, ref)
                 IN  /\ org.alive
                     /\ org.species = class
                     /\ Adjacent(cell, << org.x, org.y >>) }

\* Inside a tick: an organism born in this tick has already been eaten, and
\* the predator stands on its cell.
C9_Witness ==
  /\ pc = "update"
  /\ \E k \in 1..Len(temp_added_organisms) :
       /\ ~ temp_added_organisms[k].alive
       /\ \E org \in updated :
            /\ organisms[org].alive
            /\ organisms[org].x = temp_added_organisms[k].x
            /\ organisms[org].y = temp_added_organisms[k].y

\* The arguments break the construction contract: a side or the tick count is
\* not positive, or more organisms are asked for than the grid has cells.
InvalidConfiguration ==
  \/ width <= 0
  \/ height <= 0
  \/ total_ticks <= 0
  \/ TotalRequested > width * height

\* C11: a construction with a non-positive side, a non-positive tick count or
\* more initial organisms than cells ends in an error at construction: __init__
\* never returns a world (run() is never entered) and no tick is run.
C11_ConfigurationError ==
  InvalidConfiguration => (pc \in {"populate", "ValueError"} /\ tick = 0)

\* C12: construction terminates for every parameter set: the search for an
\* empty cell does not go on forever, also when more organisms are asked for
\* than the grid has cells.
C12_ConstructionTerminates == <>(pc # "populate")

\* The organisms other than org that the step turns from alive to dead.
KilledBesides(org) ==
  { ref \in Refs(World) \ {org} :
      Lookup(World, ref).alive /\ ~ Lookup(WorldNext, ref).alive }

\* The number of organisms the step adds to the pending births.
BornInStep == Len(temp_added_organisms') - Len(temp_added_organisms)

\* C13: in the turn of an animal the energy first drops by 1; then exactly the
\* first applicable of eat, reproduce, move takes effect: with adjacent prey
\* the animal eats (it steps onto the prey, no child, no plain move); without
\* prey it reproduces when a child is enqueued (then it stays where it is);
\* otherwise it moves to an adjacent empty cell if there is one; and the
\* survival check comes last: the animal is dead and queued for removal after
\* the turn exactly when the energy it is left with is <= 0.
C13_PriorityOrder ==
  [][ \A org \in shuffled :
        (TurnOf(org) /\ IsAnimal(Lookup(World, org)))
          => LET me == Lookup(World, org)
                 after == Lookup(WorldNext, org)
                 herbivore == me.species = "Herbivore"
                 prey_list == PreyAround(org)
                 empty_cells == get_adjacent_empty_cells(World, me.x, me.y)
                 killed == KilledBesides(org)
             IN  /\ BornInStep \in {0, 1}
                 /\ prey_list # << >> =>
                      /\ Cardinality(killed) = 1
                      /\ killed \subseteq Range(prey_list)
                      /\ BornInStep = 0
                      /\ \A prey \in killed :
                           /\ after.x = Lookup(World, prey).x
                           /\ after.y = Lookup(World, prey).y
                      /\ after.energy =
                           me.energy - 1 + (IF herbivore THEN 10 ELSE 15)
                 /\ prey_list = << >> =>
                      /\ killed = {}
                      /\ BornInStep = 1 =>
                           /\ after.x = me.x /\ after.y = me.y
                           /\ me.energy - 1 >= (IF herbivore THEN 20 ELSE 40)
                           /\ after.energy =
                                me.energy - 1 - (IF herbivore THEN 8 ELSE 20)
                      /\ BornInStep = 0 =>
                           /\ after.energy = me.energy - 1
                           /\ IF empty_cells = << >>
                              THEN after.x = me.x /\ after.y = me.y
                              ELSE << after.x, after.y >> \in Range(empty_cells)
                 /\ after.alive <=> after.energy > 0
                 /\ ~ after.alive => InQueue(temp_removed_organisms', org)
    ]_vars

\* Inside tick 2: a Herbivore has eaten in both ticks; in the second its energy
\* after metabolism (23) was above the reproduction threshold, and no child was
\* enqueued.
C13_Witness ==
  /\ pc = "update"
  /\ tick = 2
  /\ temp_added_organisms = << >>
  /\ \E org \in updated :
       /\ Lookup(World, org).species = "Herbivore"
       /\ Lookup(World, org).energy = 33
       /\ Lookup(World, org).alive

\* C14: an animal that starts its turn with energy 1 and has adjacent alive
\* prey ends the turn alive, with energy equal to its eat gain (10 / 15) and
\* with exactly one of that prey dead; one that starts its turn with energy 1
\* and has no adjacent prey ends it with energy 0, dead and queued for removal;
\* and the commit that ends the tick leaves no dead or energy-less animal in
\* main storage.
C14_LastChanceMeal ==
  [][ /\ \A org \in shuffled :
           (TurnOf(org) /\ IsAnimal(Lookup(World, org))
              /\ Lookup(World, org).energy = 1)
             => LET after == Lookup(WorldNext, org)
                    prey_list == PreyAround(org)
                IN  IF prey_list # << >>
                    THEN /\ after.alive
                         /\ after.energy =
                              (IF after.species = "Herbivore" THEN 10 ELSE 15)
                         /\ ~ InQueue(temp_removed_organisms', org)
                         /\ Cardinality({ prey \in Range(prey_list) :
                                            ~ Lookup(WorldNext, prey).alive }) = 1
                    ELSE /\ after.energy = 0
                         /\ ~ after.alive
                         /\ InQueue(temp_removed_organisms', org)
      /\ (pc = "update" /\ pc' = "run")
           => \A i \in 1..Len(organisms') :
                /\ organisms'[i].alive
                /\ IsAnimal(organisms'[i]) => organisms'[i].energy >= 1
    ]_vars

\* Tick 15 on the strip: the herbivore seeded with energy 15 has gone 14 ticks
\* without food, has just eaten the plant next to it and lives on with energy
\* 10, standing on the cell of the dead plant.
C14_Witness ==
  /\ pc = "update"
  /\ tick = 15
  /\ \E org \in updated, prey \in Refs(World) :
       /\ org = initial_plants + 1
       /\ Lookup(World, org).species = "Herbivore"
       /\ Lookup(World, org).alive
       /\ Lookup(World, org).energy = 10
       /\ Lookup(World, prey).species = "Plant"
       /\ ~ Lookup(World, prey).alive
       /\ Lookup(World, prey).x = Lookup(World, org).x
       /\ Lookup(World, prey).y = Lookup(World, org).y

\* Every in-bounds neighbour of the cell holds an alive organism, committed or
\* pending birth.
Surrounded(cell) ==
  \A d \in Cells : Adjacent(cell, d) => AliveAt(World, d) # {}

\* C15: the turn of a Plant changes no organism that exists (position, energy
\* and alive flag of all of them stay as they are, nothing is queued for
\* removal), and when all in-bounds neighbour cells of the Plant hold an alive
\* organism the turn enqueues no birth either, whatever the roll.
C15_PlantTurn ==
  [][ \A org \in shuffled :
        (TurnOf(org) /\ Lookup(World, org).species = "Plant")
          => LET me == Lookup(World, org)
             IN  /\ organisms' = organisms
                 /\ temp_removed_organisms' = temp_removed_organisms
                 /\ \A ref \in Refs(World) :
                      Lookup(WorldNext, ref) = Lookup(World, ref)
                 /\ BornInStep \in {0, 1}
                 /\ Surrounded(<< me.x, me.y >>) => BornInStep = 0
    ]_vars

\* Inside a tick on a grid of more than one cell: a Plant has had the first
\* turn with every neighbouring cell occupied, and no birth is pending.
C15_Witness ==
  /\ pc = "update"
  /\ width * height > 1
  /\ temp_added_organisms = << >>
  /\ \E org \in Refs(World) :
       /\ updated = {org}
       /\ Lookup(World, org).species = "Plant"
       /\ Surrounded(<< Lookup(World, org).x, Lookup(World, org).y >>)

\* C16: whenever the turn of a Carnivore has come with energy - 1 >= 40, no
\* adjacent Herbivore and at least one adjacent empty cell, a successful roll
\* makes update() enqueue exactly one child, for every cell random.choice may
\* pick and however many empty cells there are; and every turn of every
\* organism adds at most one organism to the pending births, on a cell that
\* was an adjacent empty cell of the parent when the turn started.
C16_OneChildPerTurn ==
  [][ /\ \A org \in shuffled :
           LET me == Lookup(World, org)
               empty_cells == get_adjacent_empty_cells(World, me.x, me.y)
           IN  ( /\ pc = "update"
                 /\ me.alive
                 /\ me.species = "Carnivore"
                 /\ me.energy - 1 >= 40
                 /\ PreyAround(org) = << >>
                 /\ empty_cells # << >> )
               => \A draw \in 1..Len(empty_cells) :
                    LET born == update(World, org, TRUE, draw).world.temp_added_organisms
                    IN  /\ Len(born) = Len(temp_added_organisms) + 1
                        /\ SubSeq(born, 1, Len(temp_added_organisms)) =
                             temp_added_organisms
                        /\ born[Len(born)].species = "Carnivore"
                        /\ << born[Len(born)].x, born[Len(born)].y >> =
                             empty_cells[draw]
      /\ \A org \in shuffled :
           TurnOf(org)
             => LET me == Lookup(World, org)
                    empty_cells == get_adjacent_empty_cells(World, me.x, me.y)
                IN  /\ BornInStep \in {0, 1}
                    /\ BornInStep = 1 =>
                         LET child == temp_added_organisms'[Len(temp_added_organisms')]
                         IN  /\ << child.x, child.y >> \in Range(empty_cells)
                             /\ child.alive
                             /\ child.species = me.species
      /\ (pc = "update" /\ updated' = updated) => BornInStep <= 0
    ]_vars

\* Inside a tick: a Carnivore that had eaten twice (energy 53) has taken its
\* turn and reproduced (52 - 20 = 32); its one child is the only pending birth
\* although another cell next to the parent is still empty.
C16_Witness ==
  /\ pc = "update"
  /\ Len(temp_added_organisms) = 1
  /\ temp_added_organisms[1].species = "Carnivore"
  /\ \E org \in updated :
       /\ Lookup(World, org).species = "Carnivore"
       /\ Lookup(World, org).energy = 32
       /\ get_adjacent_empty_cells(World, Lookup(World, org).x,
                                   Lookup(World, org).y) # << >>

\* C17: prey that is taken is not-alive at once and stays so for the rest of
\* the tick, so a predator whose turn comes later cannot take it again: what a
\* turn kills was alive and in no queue when the turn started, every organism
\* in the pending-death queue is dead, and no organism is in that queue twice.
C17_FirstMoverWins ==
  [][ /\ \A i, j \in 1..Len(temp_removed_organisms') :
           temp_removed_organisms'[i] = temp_removed_organisms'[j] => i = j
      /\ \A k \in 1..Len(temp_removed_organisms') :
           ~ Lookup(WorldNext, temp_removed_organisms'[k]).alive
      /\ \A org \in shuffled :
           TurnOf(org)
             => \A prey \in KilledBesides(org) :
                  /\ prey \in Range(PreyAround(org))
                  /\ ~ InQueue(temp_removed_organisms, prey)
                  /\ InQueue(temp_removed_organisms', prey)
      /\ (pc = "update" /\ pc' = "update")
           => \A ref \in Refs(World) :
                ~ Lookup(World, ref).alive => ~ Lookup(WorldNext, ref).alive
    ]_vars

\* Tick 1 on the 2 by 2 grid, where every cell is next to every other: two
\* Herbivores were seeded next to the one Plant; one has eaten it (15 - 1 + 10)
\* and the other, whose turn came later, has found nothing (15 - 1).
C17_Witness ==
  /\ pc = "update"
  /\ width = 2 /\ height = 2
  /\ tick = 1
  /\ Len(temp_removed_organisms) = 1
  /\ Lookup(World, temp_removed_organisms[1]).species = "Plant"
  /\ \E first, second \in updated :
       /\ Lookup(World, first).species = "Herbivore"
       /\ Lookup(World, first).energy = 24
       /\ Lookup(World, second).species = "Herbivore"
       /\ Lookup(World, second).energy = 14

\* C18: the turn of an organism A leaves the position and energy (and species)
\* of every other organism as they were; of the others at most one changes at
\* all, and only in its alive flag, from TRUE to FALSE; at most one newborn is
\* enqueued.  A step that is nobody's turn changes no organism: a passed-over
\* turn, the start of a tick and the end of run() leave storage and the
\* pending births as they are, and the commit only carries organisms over.
C18_TurnFrame ==
  [][ /\ \A org \in shuffled :
           TurnOf(org)
             => /\ \A ref \in Refs(World) \ {org} :
                     LET before == Lookup(World, ref)
                         after == Lookup(WorldNext, ref)
                     IN  /\ after.x = before.x
                         /\ after.y = before.y
                         /\ after.energy = before.energy
                         /\ after.species = before.species
                         /\ after.alive => before.alive
                /\ Cardinality({ ref \in Refs(World) \ {org} :
                                   Lookup(WorldNext, ref) # Lookup(World, ref) }) <= 1
                /\ BornInStep \in {0, 1}
                /\ Len(organisms') = Len(organisms)
      /\ (pc # "populate" /\ updated' = updated /\ ~ (pc = "update" /\ pc' = "run"))
           => UNCHANGED << organisms, temp_added_organisms >>
      /\ (pc = "update" /\ pc' = "run")
           => Range(organisms') \subseteq Range(AllOrganisms(World))
    ]_vars

\* Tick 1: a Carnivore has eaten a Herbivore that had not had its turn (the
\* prey is dead, on the cell the Carnivore stands on now, and still has its
\* energy of 15), and a third organism is alive and waiting for its turn.
C18_Witness ==
  /\ pc = "update"
  /\ tick = 1
  /\ \E org \in updated, prey \in Refs(World), other \in shuffled :
       /\ Lookup(World, org).species = "Carnivore"
       /\ Lookup(World, org).energy = 39
       /\ Lookup(World, prey).species = "Herbivore"
       /\ ~ Lookup(World, prey).alive
       /\ Lookup(World, prey).energy = 15
       /\ Lookup(World, prey).x = Lookup(World, org).x
       /\ Lookup(World, prey).y = Lookup(World, org).y
       /\ other # prey
       /\ Lookup(World, other).alive

\* C19: at every point from the end of construction on, inside a tick as well
\* as between ticks, no cell holds more than one alive organism when main
\* storage and the pending births are counted together, and every organism,
\* committed or pending, alive or dead, is on a cell of the grid.
C19_OccupancyInsideTick ==
  pc # "populate" =>
    /\ \A cell \in Cells : Cardinality(AliveAt(World, cell)) <= 1
    /\ \A ref \in Refs(World) :
         << Lookup(World, ref).x, Lookup(World, ref).y >> \in Cells

\* Inside a tick on a grid of more than one cell: every cell holds an alive
\* organism, one of them born in this tick, and an eaten organism lies on the
\* cell its predator has taken.
C19_Witness ==
  /\ pc = "update"
  /\ width * height > 1
  /\ \A cell \in Cells : AliveAt(World, cell) # {}
  /\ \E k \in 1..Len(temp_added_organisms) : temp_added_organisms[k].alive
  /\ \E dead \in Refs(World), org \in updated :
       /\ ~ Lookup(World, dead).alive
       /\ Lookup(World, org).alive
       /\ Lookup(World, dead).x = Lookup(World, org).x
       /\ Lookup(World, dead).y = Lookup(World, org).y

\* The number of alive organisms of a class, committed or pending birth.
AliveCount(w, class) ==
  Cardinality({ ref \in Refs(w) : LET org == Lookup(w, ref)
                                  IN  org.alive /\ org.species = class })

\* C20: once no Herbivore (no Carnivore) is alive, none is alive ever after,
\* at the following tick boundaries in particular; and while no Herbivore is
\* alive no step lowers the number of alive Plants.
C20_ExtinctionIsPermanent ==
  [][ pc # "populate" =>
        /\ \A class \in {"Herbivore", "Carnivore"} :
             AliveCount(World, class) = 0 => AliveCount(WorldNext, class) = 0
        /\ AliveCount(World, "Herbivore") = 0 =>
             AliveCount(WorldNext, "Plant") >= AliveCount(World, "Plant")
    ]_vars

\* Inside a tick that started without any Herbivore, dead or alive, although
\* one was seeded: a Carnivore is still alive next to Plants, and a Plant has
\* spread in this tick.
C20_Witness ==
  /\ pc = "update"
  /\ initial_herbivores > 0
  /\ \A ref \in Refs(World) : Lookup(World, ref).species # "Herbivore"
  /\ \E ref \in Refs(World) :
       Lookup(World, ref).species = "Carnivore" /\ Lookup(World, ref).alive
  /\ \E org \in updated : Lookup(World, org).species = "Carnivore"
  /\ \E k \in 1..Len(temp_added_organisms) :
       temp_added_organisms[k].species = "Plant" /\ temp_added_organisms[k].alive
====
